---- MODULE Spec2Model ----
(***************************************************************************)
(* NovaCall backend: the call task lifecycle and its background execution  *)
(* pipeline (src/main.py, src/schemas.py).  The document store helpers     *)
(* (module `database`, imported at src/main.py:9) are not part of the      *)
(* sources at hand and are modelled from the store contract of the         *)
(* specification, section 4.1.                                             *)
(***************************************************************************)
EXTENDS Integers, Sequences, FiniteSets, TLC

(* ------------------------------ bounds --------------------------------- *)

\* POST /api/call-tasks requests over one behaviour (accepted or failed).
MaxSubmits == 2
\* POST /api/transcripts requests over one behaviour.
MaxDirect == 1
\* Store operations that raise over one behaviour (SpecFault only).
MaxFaults == 1
\* Direct invocations of simulate_call_flow on an arbitrary id (SpecEngine).
MaxStray == 1
\* Readings the clock advances by over one behaviour (SpecTime only).
MaxClock == 2
\* POST /api/call-tasks requests in the single-call specifications (SpecTime,
\* SpecRead), which follow one call through time and through its readers.
MaxSolo == 1
\* The limits a reader passes to GET /api/transcripts/{call_id} are 1..MaxLimit.
MaxLimit == 3

(* ----------------------------- constants ------------------------------- *)

\* get_transcripts(call_id, limit: int = 100)
DefaultLimit == 100
\* len(steps) in simulate_call_flow
NSteps == 4

Null == "None"
\* timestamp: Optional[datetime] = None, among the clock readings 0, 1, ...
NoTime == -1

\* The five status values the schema documents (src/schemas.py:56).
Statuses == {"pending", "in_progress", "completed", "failed", "transferred"}

(* ------------------------------- state --------------------------------- *)

VARIABLES
    calltask,       \* the "calltask" collection, in insertion order
    transcriptlog,  \* the "transcriptlog" collection, in insertion order
    runs,           \* the scheduled simulate_call_flow coroutines
    responses,      \* the responses create_call_task has returned
    clock,          \* the reading of datetime.now(timezone.utc)
    ndirect,        \* POST /api/transcripts requests handled so far
    nfaults,        \* store operations that have raised so far
    nstray,         \* direct invocations of simulate_call_flow so far
    lastread        \* the last response of GET /api/transcripts/{call_id}

vars == <<calltask, transcriptlog, runs, responses, clock, ndirect, nfaults, nstray,
          lastread>>

(* ------------------------- the document store -------------------------- *)

\* The store's internal id of the n-th document of a collection (an ObjectId).
ObjectId(n) == <<"oid", n>>
\* str(ObjectId): the plain string the boundary hands out, modelled by its number.
Str(oid) == oid[2]

\* create_document(collection, data): appends the document under a fresh _id.
\* Gives the collection afterwards; the id returned is Str of the last _id.
CreateDocument(coll, data) ==
    Append(coll, [f \in {"_id"} \cup DOMAIN data |->
                    IF f = "_id" THEN ObjectId(Len(coll) + 1) ELSE data[f]])

\* The id create_document returns for a document created in `coll`.
CreatedId(coll) == Str(ObjectId(Len(coll) + 1))

\* get_document_by_id(collection, id): the document, or None.  None is
\* modelled as the document with no fields (the caller turns it into {}).
NoDocument == [f \in {} |-> Null]

GetDocumentById(coll, id) ==
    IF \E k \in 1..Len(coll) : coll[k]._id = ObjectId(id)
    THEN coll[CHOOSE k \in 1..Len(coll) : coll[k]._id = ObjectId(id)]
    ELSE NoDocument

\* update_document_by_id(collection, id, fields): sets the fields of the
\* document with that id; an unknown id changes nothing (NotFound).
UpdateDocumentById(coll, id, fields) ==
    [k \in 1..Len(coll) |->
        IF coll[k]._id = ObjectId(id)
        THEN [f \in DOMAIN coll[k] |->
                IF f \in DOMAIN fields THEN fields[f] ELSE coll[k][f]]
        ELSE coll[k]]

\* get_documents(collection, {"call_id": c}, limit): scans the collection in
\* insertion order and keeps the matching documents until `limit` are found.
RECURSIVE Scan(_, _, _, _)
Scan(coll, k, c, limit) ==
    IF k > Len(coll) \/ limit = 0 THEN <<>>
    ELSE IF coll[k].call_id = c
         THEN <<coll[k]>> \o Scan(coll, k + 1, c, limit - 1)
         ELSE Scan(coll, k + 1, c, limit)

GetDocuments(coll, c, limit) == Scan(coll, 1, c, limit)

(* ------------------------------ schemas -------------------------------- *)

\* The request bodies of POST /api/call-tasks that the model submits.  CallTask
\* declares every field as a plain str, so each of these passes validation.
Payloads ==
    { [target_phone |-> "+15551234567", intent |-> "confirm appointment",
       voice_model_id |-> "v1", status |-> "pending"],
      [target_phone |-> "+15551234567", intent |-> "confirm appointment",
       voice_model_id |-> "v1", status |-> "completed"],
      [target_phone |-> "", intent |-> "", voice_model_id |-> "",
       status |-> "bogus"] }

\* TranscriptLog(call_id=..., role=..., text=..., timestamp=..., outcome=...)
TranscriptLog(call_id, role, text, timestamp, outcome) ==
    [call_id |-> call_id, role |-> role, text |-> text,
     timestamp |-> timestamp, outcome |-> outcome]

\* The call ids requests name (an id names no task until a submit has created
\* it, and never when fewer tasks are submitted), and the outcomes of the
\* request bodies of POST /api/transcripts that the model submits.
CallIds == 1..MaxSubmits
DirectOutcomes == {Null, "completed"}

(* --------------------------- initial state ----------------------------- *)

Init ==
    /\ calltask = <<>>
    /\ transcriptlog = <<>>
    /\ runs = <<>>
    /\ responses = <<>>
    /\ clock = 0
    /\ ndirect = 0
    /\ nfaults = 0
    /\ nstray = 0
    /\ lastread = [call_id |-> 0, limit |-> 0, code |-> 0, items |-> <<>>]

(* ------------------------- POST /api/call-tasks ------------------------ *)

\* The coroutine object simulate_call_flow(call_id), not yet started.
NewRun(call_id) ==
    [call_id |-> call_id, pc |-> "update1", i |-> 0,
     intent |-> Null, voice |-> Null, phone |-> Null, ts |-> NoTime,
     raised_at |-> Null]

\* create_call_task adding the run to the background tasks twice.
create_call_task_twice(payload) ==
    /\ Len(responses) < MaxSubmits
    /\ calltask' = CreateDocument(calltask, payload)
    /\ runs' = runs \o <<NewRun(CreatedId(calltask)), NewRun(CreatedId(calltask))>>
    /\ responses' = Append(responses,
           [code |-> 200, id |-> CreatedId(calltask), status |-> "queued"])
    /\ UNCHANGED <<transcriptlog, clock, ndirect, nfaults, nstray, lastread>>

\* create_call_task adding the run to the background tasks before the document
\* is stored, so that a failing store leaves the run scheduled.
create_call_task_early(payload) ==
    /\ Len(responses) < MaxSubmits
    /\ \/ /\ calltask' = CreateDocument(calltask, payload)
          /\ runs' = Append(runs, NewRun(CreatedId(calltask)))
          /\ responses' = Append(responses,
                 [code |-> 200, id |-> CreatedId(calltask), status |-> "queued"])
          /\ UNCHANGED <<transcriptlog, clock, ndirect, nfaults, nstray, lastread>>
       \/ /\ nfaults < MaxFaults
          /\ nfaults' = nfaults + 1
          /\ runs' = Append(runs, NewRun(CreatedId(calltask)))
          /\ responses' = Append(responses,
                 [code |-> 500, id |-> Null, status |-> Null])
          /\ UNCHANGED <<calltask, transcriptlog, clock, ndirect, nstray, lastread>>

\* create_call_task.  Either the store accepts the document: the payload is
\* persisted, the run is added to the background tasks and {id, "queued"} is
\* returned (the background tasks start only after the response has been
\* produced); or create_document raises and the handler answers 500.
create_call_task(payload) ==
    /\ Len(responses) < MaxSubmits
    /\ \/ /\ calltask' = CreateDocument(calltask, payload)
          /\ runs' = Append(runs, NewRun(CreatedId(calltask)))
          /\ responses' = Append(responses,
                 [code |-> 200, id |-> CreatedId(calltask), status |-> "queued"])
          /\ UNCHANGED <<transcriptlog, clock, ndirect, nfaults, nstray, lastread>>
       \/ /\ nfaults < MaxFaults
          /\ nfaults' = nfaults + 1
          /\ responses' = Append(responses,
                 [code |-> 500, id |-> Null, status |-> Null])
          /\ UNCHANGED <<calltask, transcriptlog, runs, clock, ndirect, nstray, lastread>>

(* ------------------------- simulate_call_flow -------------------------- *)

SetRun(r, fields) ==
    runs' = [runs EXCEPT ![r] =
                [f \in DOMAIN runs[r] |->
                    IF f \in DOMAIN fields THEN fields[f] ELSE runs[r][f]]]

\* MarkInProgress replacing the task document by the fields it was given.
MarkInProgress_replace(r) ==
    /\ runs[r].pc = "update1"
    /\ calltask' = [k \in 1..Len(calltask) |->
                       IF calltask[k]._id = ObjectId(runs[r].call_id)
                       THEN [_id |-> calltask[k]._id, status |-> "in_progress"]
                       ELSE calltask[k]]
    /\ SetRun(r, [pc |-> "fetch"])
    /\ UNCHANGED <<transcriptlog, responses, clock, ndirect, nfaults, nstray, lastread>>

\* update_document_by_id("calltask", call_id, {"status": "in_progress"})
MarkInProgress(r) ==
    /\ runs[r].pc = "update1"
    /\ calltask' = UpdateDocumentById(calltask, runs[r].call_id,
                                      [status |-> "in_progress"])
    /\ SetRun(r, [pc |-> "fetch"])
    /\ UNCHANGED <<transcriptlog, responses, clock, ndirect, nfaults, nstray, lastread>>

\* task.get(field, default) on `get_document_by_id(...) or {}`
TaskGet(task, field, default) ==
    IF field \in DOMAIN task THEN task[field] ELSE default

\* FetchTask reading the task created last instead of the task of its call id.
FetchTask_latest(r) ==
    /\ runs[r].pc = "fetch"
    /\ LET task == IF calltask = <<>> THEN NoDocument ELSE calltask[Len(calltask)] IN
       SetRun(r, [pc |-> "create", i |-> 1,
                  intent |-> TaskGet(task, "intent", "the stated purpose"),
                  voice |-> TaskGet(task, "voice_model_id", "manohar-voice-v1"),
                  phone |-> TaskGet(task, "target_phone", ""),
                  ts |-> clock])
    /\ UNCHANGED <<calltask, transcriptlog, responses, clock, ndirect, nfaults, nstray, lastread>>

\* task = get_document_by_id(...) or {}; intent, voice and the steps are
\* computed from it, and the first loop iteration reads the clock.
FetchTask(r) ==
    /\ runs[r].pc = "fetch"
    /\ LET task == GetDocumentById(calltask, runs[r].call_id) IN
       SetRun(r, [pc |-> "create", i |-> 1,
                  intent |-> TaskGet(task, "intent", "the stated purpose"),
                  voice |-> TaskGet(task, "voice_model_id", "manohar-voice-v1"),
                  phone |-> TaskGet(task, "target_phone", ""),
                  ts |-> clock])
    /\ UNCHANGED <<calltask, transcriptlog, responses, clock, ndirect, nfaults, nstray, lastread>>

\* steps[i] of the run: (role, text).
Steps(run) ==
    << <<"system", <<"Dialing target", run.phone, "using voice model", run.voice>> >>,
       <<"assistant", <<"Hello! This is Nova calling on behalf of Manohar. Is now a good time?">> >>,
       <<"callee", <<"Yes, I have a minute.">> >>,
       <<"assistant", <<"Great. The purpose of my call is", run.intent>> >> >>

\* AppendStep storing steps[0] whatever the iteration.
AppendStep_first(r) ==
    /\ runs[r].pc = "create"
    /\ LET run == runs[r]
           step == Steps(run)[1]
       IN transcriptlog' = CreateDocument(transcriptlog,
              TranscriptLog(run.call_id, step[1], step[2], run.ts, Null))
    /\ SetRun(r, [pc |-> "sleep"])
    /\ UNCHANGED <<calltask, responses, clock, ndirect, nfaults, nstray, lastread>>

\* AppendStep waiting for a lock that a run keeps over its pacing delay.
AppendStep_exclusive(r) ==
    /\ runs[r].pc = "create"
    /\ \A q \in 1..Len(runs) : q # r => runs[q].pc # "sleep"
    /\ LET run == runs[r]
           step == Steps(run)[run.i]
       IN transcriptlog' = CreateDocument(transcriptlog,
              TranscriptLog(run.call_id, step[1], step[2], run.ts, Null))
    /\ SetRun(r, [pc |-> "sleep"])
    /\ UNCHANGED <<calltask, responses, clock, ndirect, nfaults, nstray, lastread>>

\* create_document("transcriptlog", log) for steps[i]
AppendStep(r) ==
    /\ runs[r].pc = "create"
    /\ LET run == runs[r]
           step == Steps(run)[run.i]
       IN transcriptlog' = CreateDocument(transcriptlog,
              TranscriptLog(run.call_id, step[1], step[2], run.ts, Null))
    /\ SetRun(r, [pc |-> "sleep"])
    /\ UNCHANGED <<calltask, responses, clock, ndirect, nfaults, nstray, lastread>>

\* await asyncio.sleep(0.6) returns; the next TranscriptLog (of the loop, or
\* the final one) is built, reading the clock.
Sleep(r) ==
    /\ runs[r].pc = "sleep"
    /\ SetRun(r, [pc |-> IF runs[r].i < NSteps THEN "create" ELSE "finish",
                  i |-> runs[r].i + 1, ts |-> clock])
    /\ UNCHANGED <<calltask, transcriptlog, responses, clock, ndirect, nfaults, nstray, lastread>>

\* Finish building the final entry without timestamp= (it defaults to None).
Finish_no_timestamp(r) ==
    /\ runs[r].pc = "finish"
    /\ transcriptlog' = CreateDocument(transcriptlog,
           TranscriptLog(runs[r].call_id, "system",
                         <<"Call completed successfully.">>, NoTime, "completed"))
    /\ SetRun(r, [pc |-> "update2"])
    /\ UNCHANGED <<calltask, responses, clock, ndirect, nfaults, nstray, lastread>>

\* Finish storing the final entry without its outcome.
Finish_no_outcome(r) ==
    /\ runs[r].pc = "finish"
    /\ transcriptlog' = CreateDocument(transcriptlog,
           TranscriptLog(runs[r].call_id, "system",
                         <<"Call completed successfully.">>, runs[r].ts, Null))
    /\ SetRun(r, [pc |-> "update2"])
    /\ UNCHANGED <<calltask, responses, clock, ndirect, nfaults, nstray, lastread>>

\* create_document("transcriptlog", TranscriptLog(..., outcome="completed"))
Finish(r) ==
    /\ runs[r].pc = "finish"
    /\ transcriptlog' = CreateDocument(transcriptlog,
           TranscriptLog(runs[r].call_id, "system",
                         <<"Call completed successfully.">>, runs[r].ts, "completed"))
    /\ SetRun(r, [pc |-> "update2"])
    /\ UNCHANGED <<calltask, responses, clock, ndirect, nfaults, nstray, lastread>>

\* MarkCompleted returning without the status write.
MarkCompleted_no_write(r) ==
    /\ runs[r].pc = "update2"
    /\ SetRun(r, [pc |-> "done"])
    /\ UNCHANGED <<calltask, transcriptlog, responses, clock, ndirect, nfaults, nstray, lastread>>

\* update_document_by_id("calltask", call_id, {"status": "completed"})
MarkCompleted(r) ==
    /\ runs[r].pc = "update2"
    /\ calltask' = UpdateDocumentById(calltask, runs[r].call_id,
                                      [status |-> "completed"])
    /\ SetRun(r, [pc |-> "done"])
    /\ UNCHANGED <<transcriptlog, responses, clock, ndirect, nfaults, nstray, lastread>>

simulate_call_flow(r) ==
    \/ MarkInProgress(r)
    \/ FetchTask(r)
    \/ AppendStep(r)
    \/ Sleep(r)
    \/ Finish(r)
    \/ MarkCompleted(r)

(* ------------------------- POST /api/transcripts ----------------------- *)

\* log_transcript writing over the newest stored entry instead of adding one.
log_transcript_overwrite(call_id, role, text, outcome) ==
    /\ ndirect < MaxDirect
    /\ ndirect' = ndirect + 1
    /\ transcriptlog' =
          IF transcriptlog = <<>>
          THEN CreateDocument(transcriptlog,
                   TranscriptLog(call_id, role, text, clock, outcome))
          ELSE CreateDocument(SubSeq(transcriptlog, 1, Len(transcriptlog) - 1),
                   TranscriptLog(call_id, role, text, clock, outcome))
    /\ UNCHANGED <<calltask, runs, responses, clock, nfaults, nstray, lastread>>

\* log_transcript: builds the TranscriptLog with the current time and stores
\* it ({"ok": true}); or create_document raises and the handler answers 500.
log_transcript(call_id, role, text, outcome) ==
    /\ ndirect < MaxDirect
    /\ ndirect' = ndirect + 1
    /\ \/ /\ transcriptlog' = CreateDocument(transcriptlog,
                 TranscriptLog(call_id, role, text, clock, outcome))
          /\ UNCHANGED <<calltask, runs, responses, clock, nfaults, nstray, lastread>>
       \/ /\ nfaults < MaxFaults
          /\ nfaults' = nfaults + 1
          /\ UNCHANGED <<calltask, transcriptlog, runs, responses, clock, nstray, lastread>>

(* -------------------- GET /api/transcripts/{call_id} ------------------- *)

\* datetime.isoformat()
IsoFormat(t) == <<"iso", t>>

\* The normalisation of one returned document: _id to str, timestamp to ISO.
Normalize(d) ==
    [f \in DOMAIN d |->
        IF f = "_id" THEN Str(d[f])
        ELSE IF f = "timestamp" /\ d[f] # NoTime THEN IsoFormat(d[f])
        ELSE d[f]]

\* get_transcripts not passing its limit on to the query.
get_transcripts_unlimited(call_id, limit) ==
    LET docs == GetDocuments(transcriptlog, call_id, DefaultLimit)
    IN [k \in 1..Len(docs) |-> Normalize(docs[k])]

\* get_transcripts(call_id, limit): the items of the response.
get_transcripts(call_id, limit) ==
    LET docs == GetDocuments(transcriptlog, call_id, limit)
    IN [k \in 1..Len(docs) |-> Normalize(docs[k])]

\* The handler recording each read as a system entry of the call.
GetTranscripts_logging(call_id, limit) ==
    /\ lastread' = [call_id |-> call_id, limit |-> limit, code |-> 200,
                    items |-> get_transcripts(call_id, limit)]
    /\ transcriptlog' = CreateDocument(transcriptlog,
           TranscriptLog(call_id, "system", <<"Transcript read.">>, clock, Null))
    /\ UNCHANGED <<calltask, runs, responses, clock, ndirect, nfaults, nstray>>

\* The handler as a step: the response {"items": docs} is built from copies
\* of the stored documents and the store is left as it is; or get_documents
\* raises and the handler answers 500.
GetTranscripts(call_id, limit) ==
    /\ \/ /\ lastread' = [call_id |-> call_id, limit |-> limit, code |-> 200,
                          items |-> get_transcripts(call_id, limit)]
          /\ UNCHANGED <<nfaults>>
       \/ /\ nfaults < MaxFaults
          /\ nfaults' = nfaults + 1
          /\ lastread' = [call_id |-> call_id, limit |-> limit, code |-> 500,
                          items |-> <<>>]
    /\ UNCHANGED <<calltask, transcriptlog, runs, responses, clock, ndirect, nstray>>

(* --------------------------- specifications ---------------------------- *)

\* Time passes: datetime.now(timezone.utc) reads a later instant from now on.
Tick ==
    /\ clock < MaxClock
    /\ clock' = clock + 1
    /\ UNCHANGED <<calltask, transcriptlog, runs, responses, ndirect, nfaults, nstray,
                   lastread>>

\* A store operation of the run raises: nothing in simulate_call_flow catches
\* it, so the coroutine ends there and the background task reports the error.
RunRaise(r) ==
    /\ runs[r].pc \in {"update1", "fetch", "create", "finish", "update2"}
    /\ nfaults < MaxFaults
    /\ nfaults' = nfaults + 1
    /\ SetRun(r, [pc |-> "raised", raised_at |-> runs[r].pc])
    /\ UNCHANGED <<calltask, transcriptlog, responses, clock, ndirect, nstray, lastread>>

\* simulate_call_flow(call_id) called on an arbitrary id.
Invoke(call_id) ==
    /\ nstray < MaxStray
    /\ nstray' = nstray + 1
    /\ runs' = Append(runs, NewRun(call_id))
    /\ UNCHANGED <<calltask, transcriptlog, responses, clock, ndirect, nfaults, lastread>>

Submit == \E p \in Payloads : create_call_task(p)
RunStep(r) == r \in 1..Len(runs) /\ simulate_call_flow(r)
Run == \E r \in 1..MaxSubmits : RunStep(r)
Direct == \E c \in CallIds, o \in DirectOutcomes :
              log_transcript(c, "callee", <<"note">>, o)
Raise == \E r \in 1..Len(runs) : RunRaise(r)
Stray == \E c \in CallIds : Invoke(c)

\* The program: submissions, their runs, direct transcript appends.  Time does
\* not advance (no control flow reads a timestamp).
Next == Submit \/ Run \/ Direct
Spec == Init /\ [][Next]_vars

\* The program with store failures inside the runs.
NextFault == Submit \/ Run \/ Direct \/ Raise
SpecFault == Init /\ [][NextFault]_vars

\* The engine entry point called on ids no task has (the store holds no task).
NextEngine == Stray \/ Run \/ Direct
SpecEngine == Init /\ [][NextEngine]_vars

\* One submitted call followed through time: its run, direct appends and the
\* clock advancing between any two steps.
SubmitSolo == Len(responses) < MaxSolo /\ Submit
NextTime == SubmitSolo \/ Run \/ Direct \/ Tick
SpecTime == Init /\ [][NextTime]_vars

\* One submitted call and its readers.
Read == \E c \in CallIds, l \in 1..MaxLimit : GetTranscripts(c, l)
NextRead == SubmitSolo \/ Run \/ Direct \/ Read
SpecRead == Init /\ [][NextRead]_vars

\* The program with every scheduled run given fair execution: the background
\* task runs each coroutine to its end.
FairSpec == Spec /\ \A r \in 1..MaxSubmits : WF_vars(RunStep(r))

(* ------------------------------ properties ----------------------------- *)

\* The stored entries of one call, in insertion order.
EntriesOf(c) == SelectSeq(transcriptlog, LAMBDA d : d.call_id = c)

\* The stored entries of one call that carry an outcome.
WithOutcome(c) == SelectSeq(EntriesOf(c), LAMBDA d : d.outcome # Null)

\* The position of a status in the lifecycle pending -> in_progress -> terminal.
StatusRank(s) ==
    CASE s = "pending" -> 0
      [] s = "in_progress" -> 1
      [] OTHER -> 2

\* Run r has taken a step.
Stepped(r) == r \in 1..Len(runs) /\ runs'[r] # runs[r]

\* C1: no step moves the stored status of a task backwards in the lifecycle
\* pending -> in_progress -> {completed, failed, transferred}, whatever the
\* request body of the submit carried.
C1_StatusMonotonic ==
    [][\A k \in 1..Len(calltask) :
          (calltask[k].status \in Statuses /\ calltask'[k].status \in Statuses)
              => StatusRank(calltask'[k].status) >= StatusRank(calltask[k].status)]_vars

\* C2: once a run has completed without error for a call that received no
\* other transcript write (the call holds just the run's NSteps + 1 entries),
\* exactly one entry of the call carries an outcome and it is the last item
\* GET /api/transcripts/{call_id} returns.
C2_OneOutcomeLast ==
    \A r \in 1..Len(runs) :
        LET c == runs[r].call_id
            items == get_transcripts(c, DefaultLimit)
        IN (runs[r].pc = "done" /\ Len(EntriesOf(c)) = NSteps + 1)
           => /\ Len(WithOutcome(c)) = 1
              /\ Len(items) = NSteps + 1
              /\ items[Len(items)].outcome # Null
              /\ items[Len(items)]._id = Str(WithOutcome(c)[1]._id)

\* C2 witness: a run has completed, its call holds only its own entries, and a
\* direct append to another call sits in the same collection.
C2_Witness ==
    \E r \in 1..Len(runs) :
        /\ runs[r].pc = "done"
        /\ Len(EntriesOf(runs[r].call_id)) = NSteps + 1
        /\ Len(transcriptlog) > NSteps + 1

\* C3: a step of a run whose call id names no task changes neither the task
\* collection nor the transcript collection.
C3_UnknownIdNoEffect ==
    [][\A r \in 1..Len(runs) :
          (Stepped(r) /\ GetDocumentById(calltask, runs[r].call_id) = NoDocument)
              => (calltask' = calltask /\ transcriptlog' = transcriptlog)]_vars

\* The stored status of the task of run r.
StatusOf(r) == GetDocumentById(calltask, runs[r].call_id).status

\* C4: a run that a failing transcript append has ended never leaves its task
\* with stored status in_progress (the engine writes status failed).
C4_EndedNotInProgress ==
    \A r \in 1..Len(runs) :
        (runs[r].pc = "raised" /\ runs[r].raised_at \in {"create", "finish"})
            => StatusOf(r) # "in_progress"

\* The transcript of run r's call as a reader gets it.
ItemsOf(r) == get_transcripts(runs[r].call_id, DefaultLimit)

Settled(r) ==
    /\ r \in 1..Len(runs)
    /\ runs[r].pc = "done"
    /\ StatusOf(r) = "completed"
    /\ Len(ItemsOf(r)) >= NSteps + 1
    /\ Len(EntriesOf(runs[r].call_id)) = NSteps + 1
           => ItemsOf(r)[Len(ItemsOf(r))].outcome = "completed"

RunsFor(c) == {r \in 1..Len(runs) : runs[r].call_id = c}

\* The successful responses that name call id c.
QueuedFor(c) == {k \in 1..Len(responses) :
                    responses[k].code = 200 /\ responses[k].id = c}

\* C6: every persisted task has exactly one run and exactly one response
\* {id, "queued"}; every run is the run of a persisted task; the successful
\* responses are as many as the tasks; and a run that has taken its first step
\* has its response already returned.
C6_OneRunPerTask ==
    /\ \A k \in 1..Len(calltask) :
           /\ Cardinality(RunsFor(Str(calltask[k]._id))) = 1
           /\ Cardinality(QueuedFor(Str(calltask[k]._id))) = 1
    /\ \A r \in 1..Len(runs) :
           /\ GetDocumentById(calltask, runs[r].call_id) # NoDocument
           /\ runs[r].pc # "update1" => QueuedFor(runs[r].call_id) # {}
    /\ \A k \in 1..Len(responses) :
           responses[k].code = 200 => responses[k].status = "queued"
    /\ Cardinality({k \in 1..Len(responses) : responses[k].code = 200})
           = Len(calltask)

\* C6 witness: two tasks accepted, one run finished and the other not started.
C6_Witness ==
    /\ Len(calltask) = 2
    /\ \E r \in 1..Len(runs) : runs[r].pc = "done"
    /\ \E r \in 1..Len(runs) : runs[r].pc = "update1"

\* The positions in the collection of the entries of call c.
PositionsOf(c) == {k \in 1..Len(transcriptlog) : transcriptlog[k].call_id = c}

Min(a, b) == IF a < b THEN a ELSE b

\* C7: GET /api/transcripts/{c}?limit=L returns min(L, n) items, the j-th
\* being the j-th appended entry of call c (n the number of entries of c).
C7_FirstLInOrder ==
    \A c \in CallIds, L \in 1..MaxLimit :
        LET items == get_transcripts(c, L)
            pos == PositionsOf(c)
        IN /\ Len(items) = Min(L, Cardinality(pos))
           /\ \A j \in 1..Len(items) :
                  \E k \in pos :
                      /\ Cardinality({m \in pos : m < k}) = j - 1
                      /\ items[j]._id = Str(transcriptlog[k]._id)
                      /\ items[j].call_id = c
                      /\ items[j].role = transcriptlog[k].role
                      /\ items[j].text = transcriptlog[k].text
                      /\ items[j].outcome = transcriptlog[k].outcome

\* C7 witness: a call with 5 entries, entries of another call among them in
\* the collection, read with limit 2.
C7_Witness ==
    \E c \in CallIds :
        /\ Cardinality(PositionsOf(c)) = 5
        /\ \E k \in 1..Len(transcriptlog) :
               /\ transcriptlog[k].call_id # c
               /\ \E m \in PositionsOf(c) : m > k
        /\ Len(get_transcripts(c, 2)) = 2

\* C8: for every call id at most one stored entry carries an outcome, and it
\* is the last entry of the call.
C8_OutcomeOnlyLast ==
    \A c \in CallIds :
        /\ Len(WithOutcome(c)) <= 1
        /\ Len(WithOutcome(c)) = 1
               => EntriesOf(c)[Len(EntriesOf(c))].outcome # Null

\* The (role, text, outcome) of the entries a run alone gives a task.
SoloTranscript(task) ==
    LET run == [phone |-> task.target_phone, voice |-> task.voice_model_id,
                intent |-> task.intent]
    IN [j \in 1..NSteps |-> <<Steps(run)[j][1], Steps(run)[j][2], Null>>]
       \o << <<"system", <<"Call completed successfully.">>, "completed">> >>

\* Every finished run whose call received no other transcript write has left
\* the status and the transcript it leaves when it executes alone.
FinishedAsAlone ==
    \A r \in 1..Len(runs) :
        (runs[r].pc = "done" /\ Len(EntriesOf(runs[r].call_id)) = NSteps + 1)
            => /\ StatusOf(r) = "completed"
               /\ [j \in 1..(NSteps + 1) |->
                      LET d == EntriesOf(runs[r].call_id)[j]
                      IN <<d.role, d.text, d.outcome>>]
                    = SoloTranscript(GetDocumentById(calltask, runs[r].call_id))

\* C9: a step of a run changes no task but its own and appends no entry but
\* to its own call; and a finished run whose call received no other write
\* leaves the status and the transcript it leaves when it executes alone.
C9_RunsIndependent ==
    [][/\ \A r \in 1..Len(runs) : Stepped(r) =>
             /\ \A k \in 1..Len(calltask) :
                    calltask'[k] # calltask[k] => Str(calltask[k]._id) = runs[r].call_id
             /\ \A k \in 1..Len(transcriptlog) : transcriptlog'[k] = transcriptlog[k]
             /\ \A k \in (Len(transcriptlog) + 1)..Len(transcriptlog') :
                    transcriptlog'[k].call_id = runs[r].call_id
       /\ FinishedAsAlone'
      ]_vars

\* C9 witness: two runs for tasks with different fields have both finished,
\* their entries interleaved in the collection.
C9_Witness ==
    /\ Len(runs) = 2
    /\ runs[1].pc = "done" /\ runs[2].pc = "done"
    /\ calltask[1].intent # calltask[2].intent
    /\ Len(transcriptlog) = 2 * (NSteps + 1)
    /\ transcriptlog[1].call_id # transcriptlog[2].call_id
    /\ transcriptlog[Len(transcriptlog)].call_id = 1

\* C10: the stored status of every task is one of the five recognized values.
C10_StatusRecognized ==
    \A k \in 1..Len(calltask) : calltask[k].status \in Statuses

\* C11: a task is stored with status pending at the moment submit persists
\* it, whatever the request body carries, and a step that takes a task out of
\* pending leaves it in_progress.
C11_StartsPending ==
    [][/\ \A k \in (Len(calltask) + 1)..Len(calltask') :
             calltask'[k].status = "pending"
       /\ \A k \in 1..Len(calltask) :
             (calltask[k].status = "pending" /\ calltask'[k].status # "pending")
                 => calltask'[k].status = "in_progress"]_vars

\* C12: no task with an empty target_phone, intent or voice_model_id is ever
\* persisted, and none has a run.
C12_NoEmptyFields ==
    \A k \in 1..Len(calltask) :
        /\ calltask[k].target_phone # ""
        /\ calltask[k].intent # ""
        /\ calltask[k].voice_model_id # ""

\* The timestamps of the entries of call c are non-decreasing in insertion order.
TimestampsOrdered(c) ==
    \A j \in 1..(Len(EntriesOf(c)) - 1) :
        EntriesOf(c)[j].timestamp <= EntriesOf(c)[j + 1].timestamp

\* C13 as stated: for every call id the timestamps of the stored entries are
\* non-decreasing in insertion order, direct appends included.
C13_TimestampsOrdered ==
    \A c \in CallIds : TimestampsOrdered(c)

\* Call c holds entries of its run only: no direct append named it.
EngineOnly(c) ==
    /\ RunsFor(c) # {}
    /\ \A j \in 1..Len(EntriesOf(c)) : EntriesOf(c)[j].text # <<"note">>

\* C13 (amended): the timestamps of a call whose entries were all written by
\* its run are non-decreasing in insertion order.
C13_EngineTimestampsOrdered ==
    \A c \in CallIds : EngineOnly(c) => TimestampsOrdered(c)

\* C13 witness: a finished run whose entries span two clock readings, while a
\* direct append to another call was stored in between.
C13_Witness ==
    \E c \in CallIds :
        /\ EngineOnly(c)
        /\ Len(EntriesOf(c)) = NSteps + 1
        /\ EntriesOf(c)[1].timestamp < EntriesOf(c)[NSteps + 1].timestamp
        /\ \E k \in 2..(Len(transcriptlog) - 1) : transcriptlog[k].call_id # c

\* What a reader asking again with the arguments of the last request gets.
Reread == get_transcripts(lastread.call_id, lastread.limit)

Position(run) ==
    CASE run.pc = "update1" -> 0
      [] run.pc = "fetch" -> 1
      [] run.pc = "create" -> 2 * run.i
      [] run.pc = "sleep" -> 2 * run.i + 1
      [] run.pc = "finish" -> 2 * NSteps + 2
      [] run.pc = "update2" -> 2 * NSteps + 3
      [] OTHER -> 2 * NSteps + 4

\* The collection has grown by exactly the j-th entry of the transcript the
\* task of call c gets from a run alone.
AppendedScriptEntry(c, j) ==
    /\ Len(transcriptlog') = Len(transcriptlog) + 1
    /\ SubSeq(transcriptlog', 1, Len(transcriptlog)) = transcriptlog
    /\ LET d == transcriptlog'[Len(transcriptlog')]
       IN /\ d.call_id = c
          /\ <<d.role, d.text, d.outcome>>
                = SoloTranscript(GetDocumentById(calltask, c))[j]

\* C15: every step of a run is the next one of the fixed sequence: the
\* in_progress write, then the four script entries in order (a pacing delay
\* after each), then the terminal entry with outcome completed, then the
\* completed write; no step writes or appends anything else.
C15_LinearScript ==
    [][\A r \in 1..Len(runs) : Stepped(r) =>
          LET c == runs[r].call_id
              n == Position(runs[r])
          IN /\ Position(runs'[r]) = n + 1
             /\ n = 0 =>
                   /\ transcriptlog' = transcriptlog
                   /\ GetDocumentById(calltask', c).status = "in_progress"
             /\ (n = 1 \/ (n % 2 = 1 /\ n < 2 * NSteps + 2)) =>
                   /\ transcriptlog' = transcriptlog
                   /\ calltask' = calltask
             /\ (n % 2 = 0 /\ n >= 2 /\ n <= 2 * NSteps + 2) =>
                   /\ AppendedScriptEntry(c, n \div 2)
                   /\ calltask' = calltask
             /\ n = 2 * NSteps + 3 =>
                   /\ transcriptlog' = transcriptlog
                   /\ GetDocumentById(calltask', c).status = "completed"]_vars

\* C15 witness: one run has taken all its steps while another is suspended
\* after its second script entry.
C15_Witness ==
    /\ \E r \in 1..Len(runs) : runs[r].pc = "done"
    /\ \E r \in 1..Len(runs) : runs[r].pc = "sleep" /\ runs[r].i = 2

\* Sequence s is a prefix of sequence t.
IsPrefix(s, t) == Len(s) <= Len(t) /\ SubSeq(t, 1, Len(s)) = s

\* C16: no step changes, reorders or removes a stored transcript entry: the
\* collection, and with it the entries of every call, only grows at its end.
C16_AppendOnly ==
    [][/\ IsPrefix(transcriptlog, transcriptlog')
       /\ \A c \in CallIds : IsPrefix(EntriesOf(c), EntriesOf(c)')]_vars

\* C16 witness: a call holds a direct append among the entries of its run.
C16_Witness ==
    \E c \in CallIds :
        /\ Len(EntriesOf(c)) = NSteps + 2
        /\ EntriesOf(c)[2].text = <<"note">>

\* C17: no step removes a task or changes a field of it other than status,
\* and a task changes only in a step of the run of its own call id (a direct
\* transcript append or a read changes no task).
C17_TaskFieldsImmutable ==
    [][/\ Len(calltask') >= Len(calltask)
       /\ \A k \in 1..Len(calltask) :
             /\ DOMAIN calltask'[k] = DOMAIN calltask[k]
             /\ \A f \in DOMAIN calltask[k] \ {"status"} :
                    calltask'[k][f] = calltask[k][f]
             /\ calltask'[k] # calltask[k] =>
                    \E r \in 1..Len(runs) :
                        Stepped(r) /\ runs[r].call_id = Str(calltask[k]._id)]_vars

\* C17 witness: the task's run has finished, and a direct append and a read
\* have been served.
C17_Witness ==
    /\ Len(calltask) = 1
    /\ calltask[1].status = "completed"
    /\ runs[1].pc = "done"
    /\ Len(transcriptlog) = NSteps + 2
    /\ lastread.code = 200

\* Some run is suspended at a pacing delay (await asyncio.sleep).
Suspended == \E r \in 1..Len(runs) : runs[r].pc = "sleep"

C19_CompletedHasTerminalEntry ==
    \A k \in 1..Len(calltask) :
        calltask[k].status = "completed" =>
            \E j \in 1..Len(EntriesOf(Str(calltask[k]._id))) :
                /\ EntriesOf(Str(calltask[k]._id))[j].role = "system"
                /\ EntriesOf(Str(calltask[k]._id))[j].outcome = "completed"

\* The last response is the failure response of a submit.
SubmitFailed ==
    /\ Len(responses') = Len(responses) + 1
    /\ responses'[Len(responses')].code = 500

\* C20: a submit whose store create raises answers 500 with no id, schedules
\* no run and stores nothing; and at all times the scheduled runs are as many
\* as the accepted submits, each run, each task and each response id being
\* one of an accepted submit, so nothing is ever written for a failed one.
C20_FailedSubmitNoRun ==
    /\ [][SubmitFailed =>
             /\ responses'[Len(responses')].id = Null
             /\ runs' = runs
             /\ calltask' = calltask
             /\ transcriptlog' = transcriptlog]_vars
    /\ [](/\ Len(runs) = Cardinality({k \in 1..Len(responses) :
                                          responses[k].code = 200})
          /\ \A r \in 1..Len(runs) : QueuedFor(runs[r].call_id) # {}
          /\ \A k \in 1..Len(calltask) : QueuedFor(Str(calltask[k]._id)) # {})

\* C20 witness: a submit has failed, a later one was accepted, and its run has
\* finished with the full transcript.
C20_Witness ==
    /\ Len(responses) = 2
    /\ responses[1].code = 500
    /\ responses[2].code = 200
    /\ Len(runs) = 1
    /\ runs[1].pc = "done"
    /\ Len(calltask) = 1
    /\ Len(EntriesOf(runs[1].call_id)) >= NSteps + 1

====
